---- MODULE Spec2Model ----
(***************************************************************************)
(* The cleaning and referential-integrity pipeline of                      *)
(* scripts/etl/data_cleaning.py.                                           *)
(*                                                                         *)
(* A CSV file is a sequence of rows; a row is a record of text cells, as   *)
(* the file holds them.  A DataFrame is what pandas makes of a file: the   *)
(* rows with missing cells turned into NULL and numeric columns parsed,    *)
(* and the set of columns that pandas holds as float64 (these are written  *)
(* back with a trailing ".0").  Numbers in a DataFrame are written in      *)
(* their canonical decimal form ("1").                                     *)
(***************************************************************************)
EXTENDS Integers, Sequences, FiniteSets, TLC

\* ------------------------------------------------------------------ bounds
\* Most rows of a raw child table (orders, order_items, events) in one run.
MaxRows == 2
\* Runs of main() over the same data directory (SpecRuns).
MaxRuns == 2

\* ------------------------------------------------------------------ cells
\* A missing value in a DataFrame (NaN, NaT, pd.NA, None).
NULL == "<NA>"

\* pandas' default missing-value tokens (read_csv with no na_values).
DefaultNaTokens ==
    {"", "#N/A", "#NA", "<NA>", "N/A", "NA", "NULL", "NaN", "None", "n/a",
     "nan", "null", "-NaN", "-nan"}

\* The tokens main() reads as missing from a raw file.
RawNaTokens == DefaultNaTokens \cup {"", " ", "NULL", "null", "None", "nan"}

\* The numbers of the cell vocabulary.
Numbers == {0 - 1, 0, 1, 2, 3, 4, 5, 10, 17, 18}

\* The texts that parse as the number n: "1", "01", "1.0".
IntForm(n) ==
    CASE n = (0 - 1) -> "-1"
      [] n = 0 -> "0"
      [] n = 1 -> "1"
      [] n = 2 -> "2"
      [] n = 3 -> "3"
      [] n = 4 -> "4"
      [] n = 5 -> "5"
      [] n = 10 -> "10"
      [] n = 17 -> "17"
      [] n = 18 -> "18"

PadForm(n) ==
    CASE n = (0 - 1) -> "-01"
      [] n = 0 -> "00"
      [] n = 1 -> "01"
      [] n = 2 -> "02"
      [] n = 3 -> "03"
      [] n = 4 -> "04"
      [] n = 5 -> "05"
      [] n = 10 -> "010"
      [] n = 17 -> "017"
      [] n = 18 -> "018"

FloatForm(n) ==
    CASE n = (0 - 1) -> "-1.0"
      [] n = 0 -> "0.0"
      [] n = 1 -> "1.0"
      [] n = 2 -> "2.0"
      [] n = 3 -> "3.0"
      [] n = 4 -> "4.0"
      [] n = 5 -> "5.0"
      [] n = 10 -> "10.0"
      [] n = 17 -> "17.0"
      [] n = 18 -> "18.0"

\* Every numeric text of the vocabulary, and the number each denotes.
NumTokens == UNION {{IntForm(n), PadForm(n), FloatForm(n)} : n \in Numbers}
FloatTokens == {FloatForm(n) : n \in Numbers}
NumOf ==
    [s \in NumTokens |->
       CHOOSE n \in Numbers : s \in {IntForm(n), PadForm(n), FloatForm(n)}]
CanonOf == [s \in NumTokens |-> IntForm(NumOf[s])]

\* The numeric texts with a fraction.
FracTokens == {"1.5"}

IsNumTok(s) == s \in NumTokens
IsFloatTok(s) == s \in FloatTokens
IsFracTok(s) == s \in FracTokens

\* The number a cell denotes (cell must satisfy IsNumTok).
Num(s) == NumOf[s]

\* A numeric text in canonical form.
NumVal(s) == IF IsFracTok(s) THEN s ELSE CanonOf[s]

\* pd.to_numeric(errors='coerce') on one cell of a DataFrame.
ToNumeric(c) == IF c # NULL /\ (IsNumTok(c) \/ IsFracTok(c)) THEN NumVal(c) ELSE NULL

\* a >= b on numeric cells: False when either is missing.
Ge(a, b) == a # NULL /\ b # NULL /\ Num(a) >= Num(b)

\* ------------------------------------------------------------------ text
\* str.strip() over the text vocabulary.
Strip(s) ==
    CASE s = NULL -> NULL
      [] s = "  " -> ""
      [] s = " bob " -> "bob"
      [] s = " Paris" -> "Paris"
      [] s = "nan " -> "nan"
      [] OTHER -> s

\* str.title() over the text vocabulary.
Title(s) ==
    CASE s = NULL -> NULL
      [] s = "bob" -> "Bob"
      [] s = "alice" -> "Alice"
      [] s = "usa" -> "Usa"
      [] s = "USA" -> "Usa"
      [] s = "shoes" -> "Shoes"
      [] OTHER -> s

\* Series.fillna(v)
FillNa(c, v) == IF c = NULL THEN v ELSE c

\* EMAIL_RE.match over the email vocabulary.
EMAIL_RE(s) == s \in {"a@x.io", "b@x.io", "c@x.io"}

\* ------------------------------------------------------------------ time
\* The instants of the timestamp vocabulary, by their canonical text.
TimeOrd(s) ==
    CASE s = "2022-01-01 10:00:00" -> 1
      [] s = "2022-01-02 10:00:00" -> 2
      [] s = "2022-01-03 10:00:00" -> 3
      [] OTHER -> 0

\* pd.to_datetime(errors='coerce') on one cell: canonical text, or NULL (NaT).
ToDatetime(c) ==
    CASE c = NULL -> NULL
      [] c = "2022-01-01T10:00:00" -> "2022-01-01 10:00:00"
      [] c = "2022-01-02T10:00:00" -> "2022-01-02 10:00:00"
      [] TimeOrd(c) > 0 -> c
      [] OTHER -> NULL

\* a >= b on timestamps: False when either is NaT.
TimeGe(a, b) == a # NULL /\ b # NULL /\ TimeOrd(a) >= TimeOrd(b)

\* ------------------------------------------------------------------ tables
Tables ==
    <<"users", "products", "orders", "order_items", "inventory_items",
      "events", "distribution_centers">>

TableSet == {Tables[i] : i \in DOMAIN Tables}

\* The columns of each table that the code reads or writes.
Columns(t) ==
    CASE t = "users" ->
           {"id", "first_name", "last_name", "email", "age", "city", "country",
            "created_at"}
      [] t = "products" ->
           {"id", "cost", "retail_price", "name", "brand", "category",
            "department"}
      [] t = "orders" ->
           {"order_id", "user_id", "status", "created_at", "shipped_at",
            "delivered_at", "returned_at"}
      [] t = "order_items" ->
           {"id", "order_id", "user_id", "product_id", "sale_price", "status",
            "created_at"}
      [] t = "inventory_items" ->
           {"id", "product_id", "cost", "product_retail_price", "created_at",
            "sold_at", "product_name", "product_brand"}
      [] t = "events" ->
           {"id", "user_id", "sequence_number", "created_at", "city",
            "event_type"}
      [] OTHER -> {"id", "name"}

\* The primary key of each table.
PrimaryKey(t) == IF t = "orders" THEN "order_id" ELSE "id"

\* ------------------------------------------------------------------ CSV
\* pd.read_csv(path, na_values=na): missing tokens become NULL; a column whose
\* every present cell is a number is parsed (int64, or float64 when a cell is
\* missing or written as a float); any other column keeps its text (object).
ColIsNumeric(file, c, na) ==
    \A i \in DOMAIN file :
        file[i][c] \in na \/ IsNumTok(file[i][c]) \/ IsFracTok(file[i][c])

ColDtype(file, c, na) ==
    IF file = <<>> \/ ~ColIsNumeric(file, c, na) THEN "object"
    ELSE IF \E i \in DOMAIN file :
                file[i][c] \in na \/ IsFloatTok(file[i][c]) \/ IsFracTok(file[i][c])
         THEN "float" ELSE "int"

ReadCsv(file, cols, na) ==
    LET numeric == {c \in cols : ColIsNumeric(file, c, na)}
    IN  [rows |-> [i \in DOMAIN file |->
                     [c \in cols |->
                        IF file[i][c] \in na THEN NULL
                        ELSE IF c \in numeric THEN NumVal(file[i][c])
                        ELSE file[i][c]]],
         dtype |-> [c \in cols |-> ColDtype(file, c, na)]]

\* df.to_csv(path, index=False, na_rep='', quoting=1): a missing cell is written
\* as an empty field, a float64 cell with its ".0".
ToCsv(df) ==
    [i \in DOMAIN df.rows |->
       [c \in DOMAIN df.dtype |->
          IF df.rows[i][c] = NULL THEN ""
          ELSE IF df.dtype[c] = "float" /\ ~IsFracTok(df.rows[i][c])
               THEN FloatForm(Num(df.rows[i][c]))
          ELSE df.rows[i][c]]]

\* ------------------------------------------------------------------ frames
\* df[mask] / df.loc[mask]: the rows whose index is in keep, in order.
RECURSIVE KeepRows(_, _, _)
KeepRows(rows, keep, i) ==
    IF i > Len(rows) THEN <<>>
    ELSE (IF i \in keep THEN <<rows[i]>> ELSE <<>>) \o KeepRows(rows, keep, i + 1)

Loc(rows, keep) == KeepRows(rows, keep, 1)

\* df.drop_duplicates(subset=[c], keep='first'); missing values equal each other.
DropDuplicates(rows, c) ==
    Loc(rows, {i \in DOMAIN rows : \A j \in 1 .. (i - 1) : rows[j][c] # rows[i][c]})

\* The column transformations of the cleaning functions, on one cell.
Transform(f, s) ==
    CASE f = "to_numeric" -> ToNumeric(s)
      [] f = "to_datetime" -> ToDatetime(s)
      [] f = "strip" -> Strip(s)
      [] f = "strip_title" -> Title(Strip(s))
      [] f = "fillna_unknown" -> FillNa(s, "Unknown")
      [] f = "fillna_unknown_product" -> FillNa(s, "Unknown Product")
      [] f = "fillna_generic" -> FillNa(s, "Generic")
      [] f = "fillna_uncategorized" -> FillNa(s, "Uncategorized")

\* df[c] = f(df[c])
Assign(rows, c, f) ==
    [i \in DOMAIN rows |-> [rows[i] EXCEPT ![c] = Transform(f, rows[i][c])]]

\* Series.isin(values): a missing value is found among values that hold one.
IsIn(v, values) == v \in values

\* The values of column c.
Col(rows, c) == {rows[i][c] : i \in DOMAIN rows}

\* Series.str on a numeric column raises AttributeError.
StrRaises(df, c) == df.dtype[c] \in {"int", "float"}

\* ------------------------------------------------------------------ cleaning
\* Each clean_* function takes the DataFrame read from the raw file and returns
\* the cleaned DataFrame.  The steps are those of the function, in its order.

\* pd.to_numeric(df[c], errors='coerce').astype('Int64'): astype raises
\* TypeError (cannot safely cast) when a value has a fraction; the column is
\* then marked "TypeError", which CleaningRaises reports.
ToInt64(df, c) ==
    [rows |-> Assign(df.rows, c, "to_numeric"),
     dtype |-> [df.dtype EXCEPT ![c] =
                  IF \E i \in DOMAIN df.rows : IsFracTok(ToNumeric(df.rows[i][c]))
                  THEN "TypeError" ELSE "Int64"]]

\* df[c] = pd.to_datetime(df[c], errors='coerce')
ToDatetimeCol(df, c) ==
    [rows |-> Assign(df.rows, c, "to_datetime"),
     dtype |-> [df.dtype EXCEPT ![c] = "datetime"]]

\* df[c] = f(df[c]) on a text column: the column is an object column afterwards.
AssignText(df, c, f) ==
    [rows |-> Assign(df.rows, c, f), dtype |-> [df.dtype EXCEPT ![c] = "object"]]

\* df = df[mask]
Where(df, keep) == [rows |-> Loc(df.rows, keep), dtype |-> df.dtype]

\* df = df.drop_duplicates(subset=[c], keep='first')
DropDup(df, c) == [rows |-> DropDuplicates(df.rows, c), dtype |-> df.dtype]

\* df = df[df['age'] >= 18]
AgeAtLeast18(df) ==
    Where(df, {i \in DOMAIN df.rows : Ge(df.rows[i].age, "18")})

\* city filled; first_name, last_name, country stripped and title-cased; city
\* stripped.
UsersText(df) ==
    AssignText(AssignText(AssignText(AssignText(AssignText(
        df, "city", "fillna_unknown"), "first_name", "strip_title"),
        "last_name", "strip_title"), "country", "strip_title"), "city", "strip")

\* df = df[df['email'].apply(lambda x: bool(EMAIL_RE.match(str(x))) if pd.notna(x) else False)]
EmailValid(df) ==
    Where(df, {i \in DOMAIN df.rows :
                 df.rows[i].email # NULL /\ EMAIL_RE(df.rows[i].email)})

\* df = df[df['created_at'].notna()]
CreatedAtNotNa(df) ==
    Where(df, {i \in DOMAIN df.rows : df.rows[i].created_at # NULL})

clean_users_DedupOnId(df) ==
    ToInt64(CreatedAtNotNa(ToDatetimeCol(EmailValid(UsersText(AgeAtLeast18(
        DropDup(df, "id")))), "created_at")), "id")

clean_users(df) ==
    ToInt64(CreatedAtNotNa(ToDatetimeCol(EmailValid(UsersText(AgeAtLeast18(
        DropDup(df, "email")))), "created_at")), "id")

\* df = df[df['cost'] >= 0]
CostNonNegative(df) ==
    Where(df, {i \in DOMAIN df.rows : Ge(df.rows[i].cost, "0")})

\* df = df[df['retail_price'] >= df['cost']]
RetailAtLeastCost(df) ==
    Where(df, {i \in DOMAIN df.rows : Ge(df.rows[i].retail_price, df.rows[i].cost)})

\* name, brand, category filled; name, brand, department stripped; category
\* stripped and title-cased.
ProductsText(df) ==
    AssignText(AssignText(AssignText(AssignText(AssignText(AssignText(AssignText(
        df, "name", "fillna_unknown_product"), "brand", "fillna_generic"),
        "category", "fillna_uncategorized"), "name", "strip"), "brand", "strip"),
        "category", "strip_title"), "department", "strip")

clean_products(df) ==
    ToInt64(ProductsText(RetailAtLeastCost(CostNonNegative(DropDup(df, "id")))), "id")

OrderStatuses == {"Completed", "Cancelled", "Processing", "Shipped", "Returned"}

\* for col in timestamp_cols: df[col] = pd.to_datetime(df[col], errors='coerce')
OrdersTimestamps(df) ==
    ToDatetimeCol(ToDatetimeCol(ToDatetimeCol(ToDatetimeCol(
        df, "created_at"), "shipped_at"), "delivered_at"), "returned_at")

\* df = df[df['status'].isin(valid_statuses)]
StatusIn(df, valid_statuses) ==
    Where(df, {i \in DOMAIN df.rows : df.rows[i].status \in valid_statuses})

ShippedAfterCreated_ShippedPresent(df) ==
    Where(df, {i \in DOMAIN df.rows :
                 \/ df.rows[i].created_at = NULL
                 \/ TimeGe(df.rows[i].shipped_at, df.rows[i].created_at)})

\* df = df[shipped_at.isna() | created_at.isna() | (shipped_at >= created_at)]
ShippedAfterCreated(df) ==
    Where(df, {i \in DOMAIN df.rows :
                 \/ df.rows[i].shipped_at = NULL
                 \/ df.rows[i].created_at = NULL
                 \/ TimeGe(df.rows[i].shipped_at, df.rows[i].created_at)})

\* df = df[delivered_at.isna() | shipped_at.isna() | (delivered_at >= shipped_at)]
DeliveredAfterShipped(df) ==
    Where(df, {i \in DOMAIN df.rows :
                 \/ df.rows[i].delivered_at = NULL
                 \/ df.rows[i].shipped_at = NULL
                 \/ TimeGe(df.rows[i].delivered_at, df.rows[i].shipped_at)})

clean_orders(df) ==
    ToInt64(ToInt64(DeliveredAfterShipped(ShippedAfterCreated(StatusIn(
        OrdersTimestamps(DropDup(df, "order_id")), OrderStatuses))),
        "order_id"), "user_id")

OrderItemStatuses == {"Complete", "Cancelled", "Processing", "Shipped", "Returned"}

\* df = df[df['sale_price'] >= 0]
SalePriceNonNegative(df) ==
    Where(df, {i \in DOMAIN df.rows : Ge(df.rows[i].sale_price, "0")})

clean_order_items(df) ==
    ToInt64(ToInt64(ToInt64(StatusIn(ToDatetimeCol(SalePriceNonNegative(
        DropDup(df, "id")), "created_at"), OrderItemStatuses),
        "id"), "order_id"), "product_id")

\* df = df[df['product_retail_price'] >= 0]
RetailPriceNonNegative(df) ==
    Where(df, {i \in DOMAIN df.rows : Ge(df.rows[i].product_retail_price, "0")})

\* df = df[sold_at.isna() | (sold_at >= created_at)]
SoldAfterCreated(df) ==
    Where(df, {i \in DOMAIN df.rows :
                 \/ df.rows[i].sold_at = NULL
                 \/ TimeGe(df.rows[i].sold_at, df.rows[i].created_at)})

clean_inventory_items(df) ==
    ToInt64(ToInt64(AssignText(AssignText(SoldAfterCreated(ToDatetimeCol(
        ToDatetimeCol(RetailPriceNonNegative(CostNonNegative(DropDup(df, "id"))),
        "created_at"), "sold_at")), "product_name", "fillna_unknown_product"),
        "product_brand", "fillna_generic"), "id"), "product_id")

\* df.replace('  +', '', regex=True) on one text cell of the vocabulary: every
\* run of two or more spaces is deleted.
ReplaceSpaces(s) ==
    CASE s = "  " -> ""
      [] s = "New  York" -> "NewYork"
      [] OTHER -> s

\* df = df.replace('  +', '', regex=True): every cell of every text column.
ReplaceAll(df) ==
    [rows |-> [i \in DOMAIN df.rows |->
                 [c \in DOMAIN df.dtype |->
                    IF df.dtype[c] = "object"
                    THEN ReplaceSpaces(df.rows[i][c]) ELSE df.rows[i][c]]],
     dtype |-> df.dtype]

clean_events(df) ==
    ReplaceAll(ToInt64(ToInt64(ToInt64(AssignText(CreatedAtNotNa(ToDatetimeCol(
        DropDup(df, "id"), "created_at")), "city", "fillna_unknown"),
        "id"), "user_id"), "sequence_number"))

clean_distribution_centers(df) ==
    ToInt64(AssignText(DropDup(df, "id"), "name", "strip"), "id")

\* files_to_clean: the cleaning function of each table.
CleaningFunc(t, df) ==
    CASE t = "users" -> clean_users(df)
      [] t = "products" -> clean_products(df)
      [] t = "orders" -> clean_orders(df)
      [] t = "order_items" -> clean_order_items(df)
      [] t = "inventory_items" -> clean_inventory_items(df)
      [] t = "events" -> clean_events(df)
      [] OTHER -> clean_distribution_centers(df)

\* The text columns a cleaning function uses through Series.str.
StrColumns(t) ==
    CASE t = "users" -> {"first_name", "last_name", "country"}
      [] t = "products" -> {"department"}
      [] t = "distribution_centers" -> {"name"}
      [] OTHER -> {}

\* Whether cleaning_func(df_raw) raises: Series.str on a column pandas read as
\* numeric (AttributeError), the removed-rows percentage of a table with no
\* rows (ZeroDivisionError; clean_distribution_centers prints no percentage),
\* or astype('Int64') on a value with a fraction (TypeError).
CleaningRaises(t, df) ==
    \/ \E c \in StrColumns(t) : StrRaises(df, c)
    \/ t # "distribution_centers" /\ Len(df.rows) = 0
    \/ \E c \in DOMAIN df.dtype : CleaningFunc(t, df).dtype[c] = "TypeError"

\* ------------------------------------------------------------------ state
VARIABLES
    pc,          \* where main() stands: "clean", "ri_orders", "ri_order_items",
                 \* "ri_events", "report", "done", or "crashed" (an exception left main)
    idx,         \* position of the cleaning loop in files_to_clean
    run,         \* number of the current run of main()
    procFiles,   \* the tables whose data/processed/<table>_cleaned.csv exists
    procData,    \* the rows of each of these files
    violFiles,   \* the files that exist in data/violations
    violData,    \* the rows of each of these files
    summary,     \* cleaning_summary
    rawPresent,  \* history: the tables whose raw file existed in this run
    cleaned,     \* history: the rows stage 1 of this run wrote for each table
    ran,         \* history: the RI checks this run evaluated
    riUsed,      \* history: the tables the RI checks of this run read
    reported,    \* the violation files the RI summary of this run lists
    pure,        \* one cleaning function applied on its own (SpecClean)
    load,        \* a run of load_data.main() (SpecLoad)
    validator    \* a BigintValidator and the file it reads (SpecValidator)

vars ==
    <<pc, idx, run, procFiles, procData, violFiles, violData, summary,
      rawPresent, cleaned, ran, riUsed, reported, pure, load, validator>>

\* No cleaning function is being applied on its own.
Idle ==
    [stage |-> "idle", table |-> "users", raw |-> <<>>, out1 |-> <<>>,
     out2 |-> <<>>]

ViolationFiles ==
    {"orphan_orders", "oi_missing_orders", "oi_missing_products", "orphan_events"}

NoRows == [t \in TableSet |-> <<>>]

\* The data directory before the first run.
FreshDirectory ==
    /\ pc = "clean"
    /\ idx = 1
    /\ run = 1
    /\ procFiles = {}
    /\ procData = NoRows
    /\ violFiles = {}
    /\ violData = [v \in ViolationFiles |-> <<>>]
    /\ summary = <<>>
    /\ rawPresent = {}
    /\ cleaned = NoRows
    /\ ran = {}
    /\ riUsed = {}
    /\ reported = {}

\* load_data.main() is not running.
NotLoading ==
    [pc |-> "idle", connected |-> FALSE, item |-> 1, load_summary |-> <<>>,
     total_rows_loaded |-> 0, check |-> 1, all_passed |-> TRUE, failed |-> {},
     orphans |-> FALSE, exit |-> 0]

\* No BigintValidator has been made.
NoValidator ==
    [stage |-> "idle", file |-> <<>>, numeric_columns |-> <<>>, violations |-> <<>>,
     is_valid |-> TRUE, first |-> <<>>, first_valid |-> TRUE, calls |-> 0]

Init ==
    /\ FreshDirectory
    /\ pure = Idle
    /\ load = NotLoading
    /\ validator = NoValidator

\* ------------------------------------------------------------------ stage 1
\* One pass of the loop over files_to_clean, for the table at position idx.
\* present and raw are what the run finds at data/raw/<table>.csv.
AfterLoop == IF idx = Len(Tables) THEN "ri_orders" ELSE "clean"

SkipTable ==
    /\ pc' = AfterLoop
    /\ idx' = idx + 1
    /\ UNCHANGED <<run, procFiles, procData, violFiles, violData, summary,
                   rawPresent, cleaned, ran, riUsed, reported>>

SummaryRow(t, original_rows, clean_rows) ==
    [table |-> t, original_rows |-> original_rows, clean_rows |-> clean_rows,
     removed_rows |-> original_rows - clean_rows,
     has_after_RI |-> FALSE, clean_rows_after_RI |-> 0]

CleanAndSave(t, raw) ==
    LET df_raw == ReadCsv(raw, Columns(t), RawNaTokens)
        df_clean == CleaningFunc(t, df_raw)
        written == ToCsv(df_clean)
    IN  IF CleaningRaises(t, df_raw)
        THEN /\ pc' = "crashed"
             /\ rawPresent' = rawPresent \cup {t}
             /\ UNCHANGED <<idx, run, procFiles, procData, violFiles, violData,
                            summary, cleaned, ran, riUsed, reported>>
        ELSE /\ pc' = AfterLoop
             /\ idx' = idx + 1
             /\ procFiles' = procFiles \cup {t}
             /\ procData' = [procData EXCEPT ![t] = written]
             /\ summary' = Append(summary,
                                  SummaryRow(t, Len(df_raw.rows), Len(df_clean.rows)))
             /\ rawPresent' = rawPresent \cup {t}
             /\ cleaned' = [cleaned EXCEPT ![t] = written]
             /\ UNCHANGED <<run, violFiles, violData, ran, riUsed, reported>>

\* absent: the tables whose raw file may be missing; files: the raw files each
\* table may have, by the table's position in files_to_clean.
CleanTable(absent, files) ==
    /\ pc = "clean"
    /\ UNCHANGED <<pure, load, validator>>
    /\ \/ Tables[idx] \in absent /\ SkipTable
       \/ \E raw \in files[idx] : CleanAndSave(Tables[idx], raw)

\* ------------------------------------------------------------------ stage 2
\* df.loc[rows, columns]
Project(df, keep, cols) ==
    [rows |-> [i \in DOMAIN Loc(df.rows, keep) |->
                 [c \in cols |-> Loc(df.rows, keep)[i][c]]],
     dtype |-> [c \in cols |-> df.dtype[c]]]

\* The update without the test on the table's name: every summary row gets
\* the count.
RecordAfterRI_EveryTable(s, t, n) ==
    [i \in DOMAIN s |->
       [s[i] EXCEPT !.has_after_RI = TRUE, !.clean_rows_after_RI = n]]

\* for row in cleaning_summary: if row["table"] == t: row["clean_rows_after_RI"] = n
RecordAfterRI(s, t, n) ==
    [i \in DOMAIN s |->
       IF s[i].table = t
       THEN [s[i] EXCEPT !.has_after_RI = TRUE, !.clean_rows_after_RI = n]
       ELSE s[i]]

ReadProcessed(t) == ReadCsv(procData[t], Columns(t), DefaultNaTokens)

\* mask_valid_user = orders_df["user_id"].isin(users_df["id"])
MaskValidUser(users_df, orders_df) ==
    {i \in DOMAIN orders_df.rows :
       IsIn(orders_df.rows[i].user_id, Col(users_df.rows, "id"))}

\* if all(os.path.exists(p) for p in [users_path, orders_path])
OrdersCheckRuns == {"users", "orders"} \subseteq procFiles

RIOrders ==
    /\ UNCHANGED <<pure, load, validator>>
    /\ pc = "ri_orders"
    /\ pc' = "ri_order_items"
    /\ IF OrdersCheckRuns
       THEN LET users_df == ReadProcessed("users")
                orders_df == ReadProcessed("orders")
                mask == MaskValidUser(users_df, orders_df)
                orphan_orders_df ==
                    Project(orders_df, DOMAIN orders_df.rows \ mask,
                            {"order_id", "user_id"})
                kept == Where(orders_df, mask)
            IN  /\ IF orphan_orders_df.rows # <<>>
                   THEN /\ violFiles' = violFiles \cup {"orphan_orders"}
                        /\ violData' = [violData EXCEPT
                                          !["orphan_orders"] = ToCsv(orphan_orders_df)]
                   ELSE UNCHANGED <<violFiles, violData>>
                /\ procData' = [procData EXCEPT !["orders"] = ToCsv(kept)]
                /\ summary' = RecordAfterRI(summary, "orders", Len(kept.rows))
                /\ ran' = ran \cup {"orders_users"}
                /\ riUsed' = riUsed \cup {"users", "orders"}
       ELSE UNCHANGED <<procData, violFiles, violData, summary, ran, riUsed>>
    /\ UNCHANGED <<idx, run, procFiles, rawPresent, cleaned, reported>>

\* mask_order_ok = oitems_df["order_id"].isin(orders_df["order_id"])
MaskOrderOk(orders_df, oitems_df) ==
    {i \in DOMAIN oitems_df.rows :
       IsIn(oitems_df.rows[i].order_id, Col(orders_df.rows, "order_id"))}

\* The product mask that lets every row pass.
MaskProductOk_EveryRow(prods_df, oitems_df) == DOMAIN oitems_df.rows

\* mask_product_ok = oitems_df["product_id"].isin(prods_df["id"])
MaskProductOk(prods_df, oitems_df) ==
    {i \in DOMAIN oitems_df.rows :
       IsIn(oitems_df.rows[i].product_id, Col(prods_df.rows, "id"))}

\* if all(os.path.exists(p) for p in [orders_path, prods_path, oitems_path])
OrderItemsCheckRuns == {"orders", "products", "order_items"} \subseteq procFiles

\* if all(os.path.exists(p) for p in [users_path, events_path]), inside the
\* order_items block.
EventsCheckRuns == {"users", "events"} \subseteq procFiles

RIOrderItems ==
    /\ UNCHANGED <<pure, load, validator>>
    /\ pc = "ri_order_items"
    /\ IF OrderItemsCheckRuns
       THEN LET orders_df == ReadProcessed("orders")
                prods_df == ReadProcessed("products")
                oitems_df == ReadProcessed("order_items")
                mask_order_ok == MaskOrderOk(orders_df, oitems_df)
                mask_product_ok == MaskProductOk(prods_df, oitems_df)
                out == {"id", "order_id", "product_id"}
                oi_missing_orders ==
                    Project(oitems_df, DOMAIN oitems_df.rows \ mask_order_ok, out)
                oi_missing_products ==
                    Project(oitems_df, DOMAIN oitems_df.rows \ mask_product_ok, out)
                kept == Where(oitems_df, mask_order_ok \cap mask_product_ok)
                new == {v \in {"oi_missing_orders"} : oi_missing_orders.rows # <<>>}
                         \cup {v \in {"oi_missing_products"} :
                                 oi_missing_products.rows # <<>>}
            IN  /\ violFiles' = violFiles \cup new
                /\ violData' =
                     [v \in ViolationFiles |->
                        IF v = "oi_missing_orders" /\ v \in new
                        THEN ToCsv(oi_missing_orders)
                        ELSE IF v = "oi_missing_products" /\ v \in new
                        THEN ToCsv(oi_missing_products)
                        ELSE violData[v]]
                /\ procData' = [procData EXCEPT !["order_items"] = ToCsv(kept)]
                /\ summary' = RecordAfterRI(summary, "order_items", Len(kept.rows))
                /\ ran' = ran \cup {"order_items_orders", "order_items_products"}
                /\ riUsed' = riUsed \cup {"orders", "products", "order_items"}
                /\ pc' = IF EventsCheckRuns THEN "ri_events" ELSE "report"
       ELSE /\ pc' = "report"
            /\ UNCHANGED <<procData, violFiles, violData, summary, ran, riUsed>>
    /\ UNCHANGED <<idx, run, procFiles, rawPresent, cleaned, reported>>

\* The mask without the isna() disjunct: events without user_id are orphans.
MaskValid_WithoutIsna(users_df, events_df) ==
    {i \in DOMAIN events_df.rows :
       IsIn(events_df.rows[i].user_id, Col(users_df.rows, "id") \ {NULL})}

\* valid_user_ids = set(users_df['id'].dropna().unique())
\* mask_valid = events_df["user_id"].isna() | events_df["user_id"].isin(valid_user_ids)
MaskValid(users_df, events_df) ==
    {i \in DOMAIN events_df.rows :
       \/ events_df.rows[i].user_id = NULL
       \/ IsIn(events_df.rows[i].user_id, Col(users_df.rows, "id") \ {NULL})}

RIEvents ==
    /\ UNCHANGED <<pure, load, validator>>
    /\ pc = "ri_events"
    /\ pc' = "report"
    /\ LET users_df == ReadProcessed("users")
           events_df == ReadProcessed("events")
           mask_valid == MaskValid(users_df, events_df)
           orphan_events_df ==
               Project(events_df, DOMAIN events_df.rows \ mask_valid,
                       {"id", "user_id", "created_at"})
           kept == Where(events_df, mask_valid)
       IN  /\ IF orphan_events_df.rows # <<>>
              THEN /\ violFiles' = violFiles \cup {"orphan_events"}
                   /\ violData' = [violData EXCEPT
                                     !["orphan_events"] = ToCsv(orphan_events_df)]
              ELSE UNCHANGED <<violFiles, violData>>
           /\ procData' = [procData EXCEPT !["events"] = ToCsv(kept)]
           /\ summary' = RecordAfterRI(summary, "events", Len(kept.rows))
           /\ ran' = ran \cup {"events_users"}
           /\ riUsed' = riUsed \cup {"users", "events"}
    /\ UNCHANGED <<idx, run, procFiles, rawPresent, cleaned>>
    /\ UNCHANGED reported

\* ------------------------------------------------------------------ stage 3
\* The RI summary lists every violation file that exists; the statistics read
\* summary_df['original_rows'], which an empty cleaning_summary does not have
\* (KeyError).
Report ==
    /\ UNCHANGED <<pure, load, validator>>
    /\ pc = "report"
    /\ reported' = violFiles
    /\ pc' = IF summary = <<>> THEN "crashed" ELSE "done"
    /\ UNCHANGED <<idx, run, procFiles, procData, violFiles, violData, summary,
                   rawPresent, cleaned, ran, riUsed>>

\* main() is started again over the same data directory.
StartRun ==
    /\ UNCHANGED <<pure, load, validator>>
    /\ pc \in {"done", "crashed"}
    /\ run < MaxRuns
    /\ run' = run + 1
    /\ pc' = "clean"
    /\ idx' = 1
    /\ summary' = <<>>
    /\ rawPresent' = {}
    /\ cleaned' = NoRows
    /\ ran' = {}
    /\ riUsed' = {}
    /\ reported' = {}
    /\ UNCHANGED <<procFiles, procData, violFiles, violData>>

\* ------------------------------------------------------------------ inputs
\* Raw rows, as text.  Every row is valid unless its arguments make it not so.
T1 == "2022-01-01 10:00:00"
T2 == "2022-01-02 10:00:00"
T3 == "2022-01-03 10:00:00"

UserRow(id, email, age, city) ==
    [id |-> id, first_name |-> " bob ", last_name |-> "alice", email |-> email,
     age |-> age, city |-> city, country |-> "usa", created_at |-> T1]

ProductRow(id, cost, retail_price, name) ==
    [id |-> id, cost |-> cost, retail_price |-> retail_price, name |-> name,
     brand |-> "Acme", category |-> "shoes", department |-> "Men"]

OrderRow(order_id, user_id, status, shipped_at) ==
    [order_id |-> order_id, user_id |-> user_id, status |-> status,
     created_at |-> T2, shipped_at |-> shipped_at, delivered_at |-> "",
     returned_at |-> ""]

OrderTimes(order_id, status, created_at, shipped_at, delivered_at, returned_at) ==
    [order_id |-> order_id, user_id |-> "1", status |-> status,
     created_at |-> created_at, shipped_at |-> shipped_at,
     delivered_at |-> delivered_at, returned_at |-> returned_at]

OrderItemRow(id, order_id, product_id) ==
    [id |-> id, order_id |-> order_id, user_id |-> "1", product_id |-> product_id,
     sale_price |-> "5", status |-> "Shipped", created_at |-> T1]

InventoryRow(id, product_id) ==
    [id |-> id, product_id |-> product_id, cost |-> "5",
     product_retail_price |-> "10", created_at |-> T1, sold_at |-> "",
     product_name |-> "", product_brand |-> "Acme"]

EventRow(id, user_id, city) ==
    [id |-> id, user_id |-> user_id, sequence_number |-> "1", created_at |-> T1,
     city |-> city, event_type |-> "cart"]

CenterRow(id, name) == [id |-> id, name |-> name]

\* The rows a raw file of the pipeline runs is made of: user 1 is kept, the
\* second user has no id, user 2 is under age; product 2 is priced under cost;
\* orders 2 and 3 and events 2 and 3 reference user 2 and no user; the order
\* items reference orders 1, 2, 1, 3 and products 1, 1, 2, 1.
SampleRows(t) ==
    CASE t = "users" ->
           <<UserRow("1", "a@x.io", "18", " Paris"),
             UserRow("", "b@x.io", "18", "Paris"),
             UserRow("2", "c@x.io", "17", "Paris")>>
      [] t = "products" ->
           <<ProductRow("1", "5", "10", "Boot"), ProductRow("2", "10", "5", "Shoe")>>
      [] t = "orders" ->
           <<OrderRow("1", "1", "Shipped", ""),
             OrderRow("2", "2", "Shipped", ""),
             OrderRow("3", "", "Processing", "")>>
      [] t = "order_items" ->
           <<OrderItemRow("1", "1", "1"), OrderItemRow("2", "2", "1"),
             OrderItemRow("3", "1", "2"), OrderItemRow("4", "3", "1")>>
      [] t = "inventory_items" -> <<InventoryRow("1", "1")>>
      [] t = "events" ->
           <<EventRow("1", "1", "Paris"), EventRow("2", "2", ""),
             EventRow("3", "", "Paris")>>
      [] OTHER -> <<CenterRow("1", " Paris")>>

\* The raw files of one table: the sample rows of at most MaxRows positions, in
\* their order (the empty file, header only, among them).
SubFiles(rows, n) ==
    {Loc(rows, K) : K \in {K \in SUBSET DOMAIN rows : Cardinality(K) <= n}}

RawFilesOf(t) ==
    IF t \in {"inventory_items", "distribution_centers"}
    THEN {SampleRows(t)}
    ELSE SubFiles(SampleRows(t), MaxRows)

RawFiles == [i \in DOMAIN Tables |-> RawFilesOf(Tables[i])]

MayBeAbsent == TableSet \ {"inventory_items", "distribution_centers"}

\* Over several runs: each file is absent or holds all its sample rows but the
\* last; the orders and the events file may also hold the first row only (a
\* file without orphans).
RunFilesOf(t) ==
    IF t \in {"inventory_items", "distribution_centers"}
    THEN {SampleRows(t)}
    ELSE IF t \in {"orders", "events"}
    THEN {SubSeq(SampleRows(t), 1, Len(SampleRows(t)) - 1), SubSeq(SampleRows(t), 1, 1)}
    ELSE {SubSeq(SampleRows(t), 1, Len(SampleRows(t)) - 1)}

RunFiles == [i \in DOMAIN Tables |-> RunFilesOf(Tables[i])]

AnyAbsent == TableSet

\* ------------------------------------------------------------------ specifications
RIStage == RIOrders \/ RIOrderItems \/ RIEvents

\* One run of main() over a fresh data directory.
Next ==
    \/ CleanTable(MayBeAbsent, RawFiles)
    \/ RIStage
    \/ Report

Spec == Init /\ [][Next]_vars

\* Successive runs of main() over the same data directory.
NextRuns ==
    \/ CleanTable(AnyAbsent, RunFiles)
    \/ RIStage
    \/ Report
    \/ StartRun

SpecRuns == Init /\ [][NextRuns]_vars

\* ------------------------------------------------------------------ one function
\* A cleaning function applied to a raw file, and applied again to its own
\* output as main() writes and reads it.
MaxCleanRows == 3

\* Raw rows for the cleaning functions: keys written as "1", "01" and "x",
\* repeated keys and emails, blank and padded text, rows each filter rejects.
CleanSamples(t) ==
    CASE t = "users" ->
           <<UserRow("1", "a@x.io", "18", " Paris"),
             UserRow("1", "b@x.io", "18", "  "),
             UserRow("x", "a@x.io", "18", ""),
             UserRow("01", "c@x.io", "17", "Paris"),
             UserRow("2", "d@x.io", "17", "Paris"),
             UserRow("3", "d@x.io", "18", "Paris")>>
      [] t = "products" ->
           <<ProductRow("1", "5", "10", "Boot"), ProductRow("01", "5", "5", "nan "),
             ProductRow("x", "5", "10", ""), ProductRow("2", "10", "5", "Shoe")>>
      [] t = "orders" ->
           <<OrderRow("1", "1", "Shipped", ""),
             OrderRow("01", "2", "Shipped", "2022-01-03 10:00:00"),
             OrderRow("x", "x", "Returned", "2022-01-02T10:00:00"),
             OrderRow("2", "", "Bogus", T1),
             OrderTimes("3", "Shipped", T2, T1, "", ""),
             OrderTimes("4", "Completed", T1, T2, T1, ""),
             OrderTimes("5", "Completed", T2, "", T1, ""),
             OrderTimes("5", "Cancelled", T1, "", "", ""),
             OrderTimes("10", "Completed", T2, "soon", T1, T3),
             OrderTimes("17", "Returned", T1, T2, T3, T3)>>
      [] t = "order_items" ->
           <<OrderItemRow("1", "1", "1"), OrderItemRow("01", "2", "x"),
             OrderItemRow("x", "", "1")>>
      [] t = "inventory_items" ->
           <<InventoryRow("1", "1"), InventoryRow("01", "x"), InventoryRow("x", "")>>
      [] t = "events" ->
           <<EventRow("1", "1", "Paris"), EventRow("01", "x", "  "),
             EventRow("x", "", "New  York"), EventRow("1.5", "1", "Paris")>>
      [] OTHER ->
           <<CenterRow("1", " Paris"), CenterRow("01", "Paris"), CenterRow("x", "Lyon")>>

CleanInputs(t) == SubFiles(CleanSamples(t), MaxCleanRows)

InitClean ==
    /\ FreshDirectory
    /\ load = NotLoading
    /\ validator = NoValidator
    /\ \E t \in TableSet :
          \E f \in CleanInputs(t) :
             pure = [stage |-> "raw", table |-> t, raw |-> f, out1 |-> <<>>,
                     out2 |-> <<>>]

\* df_raw = pd.read_csv(raw_path, na_values=[...]); df_clean = cleaning_func(df_raw);
\* df_clean.to_csv(cleaned_path, na_rep='', quoting=1)
CleanOnce ==
    /\ pure.stage = "raw"
    /\ LET df == ReadCsv(pure.raw, Columns(pure.table), RawNaTokens)
       IN  pure' = IF CleaningRaises(pure.table, df)
                   THEN [pure EXCEPT !.stage = "raised"]
                   ELSE [pure EXCEPT !.stage = "cleaned",
                                     !.out1 = ToCsv(CleaningFunc(pure.table, df))]
    /\ UNCHANGED <<pc, idx, run, procFiles, procData, violFiles, violData, summary,
                   rawPresent, cleaned, ran, riUsed, reported, load, validator>>

\* The same on the file the first application wrote.
CleanAgain ==
    /\ pure.stage = "cleaned"
    /\ LET df == ReadCsv(pure.out1, Columns(pure.table), RawNaTokens)
       IN  pure' = IF CleaningRaises(pure.table, df)
                   THEN [pure EXCEPT !.stage = "raised_again"]
                   ELSE [pure EXCEPT !.stage = "recleaned",
                                     !.out2 = ToCsv(CleaningFunc(pure.table, df))]
    /\ UNCHANGED <<pc, idx, run, procFiles, procData, violFiles, violData, summary,
                   rawPresent, cleaned, ran, riUsed, reported, load, validator>>

NextClean == CleanOnce \/ CleanAgain

SpecClean == InitClean /\ [][NextClean]_vars

\* ------------------------------------------------------------------ load_data
\* scripts/etl/load_data.py: main() connects, loads the cleaned files in the
\* order of load_sequence, runs the five orphan queries and exits.

MaxLoadRows == 1

\* The exit statuses of main(): no connection, all checks passed, warnings.
ExitNoConnection == 1

ExitSuccess == 0

ExitIntegrityWarnings == 1

\* The tables of load_sequence, parents before children.
load_sequence ==
    <<"distribution_centers", "users", "products", "inventory_items", "orders",
      "order_items", "events">>

\* The checks of validate_referential_integrity, by name.
integrity_checks ==
    <<"Orders without users", "Order Items without orders",
      "Order items without products", "Order items without users",
      "Inventory items without products">>

\* What load_csv_to_table returns: 0 when the file is missing, 0 after an
\* error (rollback), else the row count of the table after the commit.
load_csv_to_table(outcome, row_count) ==
    CASE outcome = "missing" -> 0
      [] outcome = "error" -> 0
      [] OTHER -> row_count

\* get_connection() returns a connection or None; without one main() exits.
Connect ==
    /\ load.pc = "connect"
    /\ \E conn \in BOOLEAN :
         load' = IF conn
                   THEN [load EXCEPT !.pc = "load", !.connected = TRUE]
                   ELSE [load EXCEPT !.pc = "exited", !.exit = ExitNoConnection]
    /\ UNCHANGED <<pc, idx, run, procFiles, procData, violFiles, violData, summary,
                   rawPresent, cleaned, ran, riUsed, reported, pure, validator>>

\* One turn of the loop over load_sequence.
LoadTable ==
    /\ load.pc = "load"
    /\ \E outcome \in {"missing", "error", "loaded"} : \E row_count \in 1..MaxLoadRows :
         LET table == load_sequence[load.item]
             rows_loaded == load_csv_to_table(outcome, row_count)
         IN  load' = [load EXCEPT
                 !.total_rows_loaded = @ + rows_loaded,
                 !.load_summary = Append(@, [table |-> table, rows |-> rows_loaded]),
                 !.failed = IF outcome = "loaded" THEN @ ELSE @ \cup {table},
                 !.item = @ + 1,
                 !.pc = IF load.item = Len(load_sequence) THEN "validate" ELSE "load"]
    /\ UNCHANGED <<pc, idx, run, procFiles, procData, violFiles, violData, summary,
                   rawPresent, cleaned, ran, riUsed, reported, pure, validator>>

\* One query of validate_referential_integrity: it counts orphans, or fails.
IntegrityCheck ==
    /\ load.pc = "validate"
    /\ \E result \in {"none", "orphans", "error"} :
         load' = [load EXCEPT
             !.all_passed = @ /\ result = "none",
             !.orphans = @ \/ result = "orphans",
             !.check = @ + 1,
             !.pc = IF load.check = Len(integrity_checks) THEN "summary" ELSE "validate"]
    /\ UNCHANGED <<pc, idx, run, procFiles, procData, violFiles, violData, summary,
                   rawPresent, cleaned, ran, riUsed, reported, pure, validator>>

\* The final summary and the exit status.
LoadExit ==
    /\ load.pc = "summary"
    /\ load' = [load EXCEPT !.pc = "exited",
                            !.exit = IF load.all_passed THEN ExitSuccess
                                                         ELSE ExitIntegrityWarnings]
    /\ UNCHANGED <<pc, idx, run, procFiles, procData, violFiles, violData, summary,
                   rawPresent, cleaned, ran, riUsed, reported, pure, validator>>

InitLoad ==
    /\ FreshDirectory
    /\ pure = Idle
    /\ validator = NoValidator
    /\ load = [NotLoading EXCEPT !.pc = "connect"]

NextLoad == Connect \/ LoadTable \/ IntegrityCheck \/ LoadExit

SpecLoad == InitLoad /\ [][NextLoad]_vars

\* ------------------------------------------------------------------ BigintValidator
\* tests/validators/events/big_int_validator.py.  A number near the ends of
\* the signed 64-bit range is written as base * 2^63 + off, plus one half
\* when frac holds; float tells a Python float from a Python int.

MaxValRows == 2

MaxCalls == 2

Number(base, off) == [nan |-> FALSE, base |-> base, off |-> off, frac |-> FALSE, float |-> FALSE]

NaN == [nan |-> TRUE, base |-> 0, off |-> 0, frac |-> FALSE, float |-> TRUE]

BIGINT_MIN == Number(0 - 1, 0)

BIGINT_MAX == Number(1, 0 - 1)

\* a < b, exactly, as Python compares an int or a float with an int.
Less(a, b) ==
    \/ a.base < b.base
    \/ a.base = b.base /\ a.off < b.off
    \/ a.base = b.base /\ a.off = b.off /\ ~a.frac /\ b.frac

\* The numeric tokens of the validated files and the numbers they spell.
BigTokens ==
    {"1", "1.5", "9223372036854775807", "9223372036854775808", "9223372036854777856",
     "-9223372036854775808", "-9223372036854775809", "-9223372036854777856"}

ParseNumber(token) ==
    CASE token = "1" -> Number(0, 1)
      [] token = "1.5" -> [Number(0, 1) EXCEPT !.frac = TRUE]
      [] token = "9223372036854775807" -> Number(1, 0 - 1)
      [] token = "9223372036854775808" -> Number(1, 0)
      [] token = "9223372036854777856" -> Number(1, 2048)
      [] token = "-9223372036854775808" -> Number(0 - 1, 0)
      [] token = "-9223372036854775809" -> Number(0 - 1, 0 - 1)
      [] token = "-9223372036854777856" -> Number(0 - 1, 0 - 2048)
      [] OTHER -> NaN

IsIntegerToken(token) == token \in BigTokens /\ ~ParseNumber(token).frac

\* The nearest double: below 2^63 in magnitude the doubles are 1024 apart,
\* above it 2048 apart (ties go to the even mantissa, which is 2^63's).
RoundOff(off) ==
    IF off >= 0 THEN 2048 * ((off + 1023) \div 2048)
    ELSE 0 - (1024 * (((0 - off) + 511) \div 1024))

Float64(v) ==
    CASE v.nan -> NaN
      [] v.base = 1 -> [v EXCEPT !.off = RoundOff(v.off), !.float = TRUE]
      [] v.base = 0 - 1 -> [v EXCEPT !.off = 0 - RoundOff(0 - v.off), !.float = TRUE]
      [] OTHER -> [v EXCEPT !.float = TRUE]

InInt64(v) == ~Less(v, BIGINT_MIN) /\ ~Less(BIGINT_MAX, v)

\* The dtype of pd.to_numeric(df[col], errors='coerce') over the column read by
\* read_csv: int64 when every cell is an integer of that range; uint64 when
\* every cell is a non-negative integer and one is above int64; float64
\* otherwise (a missing cell, a fraction, a text, or an integer that no
\* integer dtype of the column holds, which read_csv keeps as text and
\* to_numeric coerces to a double).
SeriesDtype(file, col) ==
    IF \A i \in DOMAIN file :
          IsIntegerToken(file[i][col]) /\ InInt64(ParseNumber(file[i][col]))
    THEN "int64"
    ELSE IF \A i \in DOMAIN file :
          IsIntegerToken(file[i][col]) /\ ~Less(ParseNumber(file[i][col]), Number(0, 0))
    THEN "uint64"
    ELSE "float64"

\* numeric_series: the values the loop of _validate_column iterates, as Python
\* scalars (int for an integer dtype, float for float64).
to_numeric(file, col) ==
    [i \in DOMAIN file |->
        IF file[i][col] \in DefaultNaTokens THEN NaN
        ELSE IF SeriesDtype(file, col) = "float64" THEN Float64(ParseNumber(file[i][col]))
        ELSE ParseNumber(file[i][col])]

\* df[col].iloc[idx] of a cell whose numeric value is NaN: NaN or a text.
original_value(file, col, i) ==
    IF file[i][col] \in DefaultNaTokens THEN NULL ELSE file[i][col]

Violation(i, col, error_type) ==
    <<[row |-> (i - 1) + 2, column |-> col, error_type |-> error_type]>>

NonNumeric(file, col, i) ==
    IF original_value(file, col, i) # NULL /\ Strip(original_value(file, col, i)) # ""
    THEN Violation(i, col, "NON_NUMERIC") ELSE <<>>

OutOfRange(value, col, i) ==
    IF Less(value, BIGINT_MIN) THEN Violation(i, col, "UNDERFLOW")
    ELSE IF Less(BIGINT_MAX, value) THEN Violation(i, col, "OVERFLOW")
    ELSE <<>>

PrecisionLoss(value, col, i) ==
    IF value.float /\ value.frac THEN Violation(i, col, "PRECISION_LOSS") ELSE <<>>

\* One turn of the loop of _validate_column.
CheckValue(file, col, i, value) ==
    IF value.nan THEN NonNumeric(file, col, i)
    ELSE OutOfRange(value, col, i) \o PrecisionLoss(value, col, i)

RECURSIVE ValidateRows(_, _, _)
ValidateRows(file, col, i) ==
    IF i > Len(file) THEN <<>>
    ELSE CheckValue(file, col, i, to_numeric(file, col)[i]) \o ValidateRows(file, col, i + 1)

\* What _validate_column appends to self.violations.
validate_column(file, col) == ValidateRows(file, col, 1)

ValidatorColumns == {"id", "user_id"}

\* What the loop of validate() over self.numeric_columns appends.
RECURSIVE ValidateColumns(_, _, _)
ValidateColumns(file, numeric_columns, k) ==
    IF k > Len(numeric_columns) THEN <<>>
    ELSE (IF numeric_columns[k] \in ValidatorColumns
            THEN validate_column(file, numeric_columns[k]) ELSE <<>>)
         \o ValidateColumns(file, numeric_columns, k + 1)

\* validate(): self.violations is never emptied, and the list returned is
\* self.violations itself.
Validate ==
    /\ validator.stage = "made"
    /\ validator.calls < MaxCalls
    /\ validator' = [validator EXCEPT
           !.violations = @ \o ValidateColumns(validator.file, validator.numeric_columns, 1),
           !.is_valid = Len(validator.violations
                            \o ValidateColumns(validator.file, validator.numeric_columns, 1)) = 0,
           !.first = IF validator.calls = 0
                       THEN ValidateColumns(validator.file, validator.numeric_columns, 1) ELSE @,
           !.first_valid = IF validator.calls = 0
                       THEN Len(ValidateColumns(validator.file, validator.numeric_columns, 1)) = 0
                       ELSE @,
           !.calls = @ + 1]
    /\ UNCHANGED <<pc, idx, run, procFiles, procData, violFiles, violData, summary,
                   rawPresent, cleaned, ran, riUsed, reported, pure, load>>

ValidatorRows ==
    [id : BigTokens \cup {"", "abc"}, user_id : {"1", "abc"}]

ValidatorFiles ==
    UNION {[1..n -> ValidatorRows] : n \in 0..MaxValRows}

\* BigintValidator(csv_path, numeric_columns) over an existing file.
InitValidator ==
    /\ FreshDirectory
    /\ pure = Idle
    /\ load = NotLoading
    /\ \E file \in ValidatorFiles :
       \E numeric_columns \in {<<"id">>, <<"id", "user_id">>, <<"id", "sequence_number">>} :
         validator = [NoValidator EXCEPT !.stage = "made", !.file = file,
                                         !.numeric_columns = numeric_columns]

NextValidator == Validate

SpecValidator == InitValidator /\ [][NextValidator]_vars

\* ------------------------------------------------------------------ properties
\* The key a cell of a written file holds: NULL for an empty field.
KeyOf(cell) == IF cell \in DefaultNaTokens THEN NULL ELSE NumVal(cell)

\* The keys column c of a written file holds.
KeysOf(file, c) == {KeyOf(file[i][c]) : i \in DOMAIN file} \ {NULL}

\* A foreign-key cell references a parent row: it holds a key, and a parent row
\* has that key.  This is the match of the load step's own orphan queries
\* (LEFT JOIN ... ON child.key = parent.key WHERE parent.key IS NULL).
References(cell, parentKeys) == KeyOf(cell) # NULL /\ KeyOf(cell) \in parentKeys

UserKeys == KeysOf(procData["users"], "id")
OrderKeys == KeysOf(procData["orders"], "order_id")
ProductKeys == KeysOf(procData["products"], "id")

AfterOrdersCheck == pc \in {"ri_order_items", "ri_events", "report", "done"}

\* C1: after a completed run with users, products, orders, order_items and
\* events all present, every final order references a final user, every final
\* order item references a final order and a final product, and every final
\* event has no user_id or references a final user.
C1_FinalOutputsReferenceParents ==
    (pc = "done" /\
     {"users", "products", "orders", "order_items", "events"} \subseteq rawPresent)
    =>
    /\ \A i \in DOMAIN procData["orders"] :
          References(procData["orders"][i].user_id, UserKeys)
    /\ \A i \in DOMAIN procData["order_items"] :
          /\ References(procData["order_items"][i].order_id, OrderKeys)
          /\ References(procData["order_items"][i].product_id, ProductKeys)
    /\ \A i \in DOMAIN procData["events"] :
          \/ KeyOf(procData["events"][i].user_id) = NULL
          \/ References(procData["events"][i].user_id, UserKeys)

\* C2: after a completed run with users, products, orders and order_items all
\* present, every surviving order item references a surviving order whose
\* user_id references a user.
C2_ItemsReferenceOrdersWithUsers ==
    (pc = "done" /\
     {"users", "products", "orders", "order_items"} \subseteq rawPresent)
    =>
    \A i \in DOMAIN procData["order_items"] :
       \E j \in DOMAIN procData["orders"] :
          /\ KeyOf(procData["order_items"][i].order_id) # NULL
          /\ KeyOf(procData["order_items"][i].order_id)
               = KeyOf(procData["orders"][j].order_id)
          /\ References(procData["orders"][j].user_id, UserKeys)

\* C3: after a completed run with users and events present, no orphan event is
\* left in the events output, whatever other tables are present.
C3_EventsCheckedWheneverUsersAndEvents ==
    (pc = "done" /\ {"users", "events"} \subseteq rawPresent)
    =>
    /\ "events_users" \in ran
    /\ \A i \in DOMAIN procData["events"] :
          \/ KeyOf(procData["events"][i].user_id) = NULL
          \/ References(procData["events"][i].user_id, UserKeys)

\* C4: after a completed run with orders and order_items present, the
\* order_items -> orders check has run and no order item is left whose order_id
\* is not in orders, also when products is absent.
C4_ItemsCheckedWheneverOrdersAndItems ==
    (pc = "done" /\ {"orders", "order_items"} \subseteq rawPresent)
    =>
    /\ "order_items_orders" \in ran
    /\ \A i \in DOMAIN procData["order_items"] :
          References(procData["order_items"][i].order_id, OrderKeys)

\* C5: over any sequence of runs, the RI checks of a run read only tables whose
\* raw source is present in that run, and a table whose parent's raw source is
\* absent loses no row in the RI stage.
C5_AbsentTablesTakeNoPartInRI ==
    /\ riUsed \subseteq rawPresent
    /\ (pc = "done" /\ "orders" \in rawPresent /\ "users" \notin rawPresent)
       => procData["orders"] = cleaned["orders"]

\* C6: for every table of the cleaning summary, clean_rows <= original_rows,
\* and clean_rows_after_RI <= clean_rows whenever it is recorded.
C6_SummaryCountsDecrease ==
    \A i \in DOMAIN summary :
       /\ summary[i].clean_rows <= summary[i].original_rows
       /\ summary[i].has_after_RI
          => summary[i].clean_rows_after_RI <= summary[i].clean_rows

\* A finished run whose summary has a table that lost rows in cleaning, and a
\* table that lost rows again in the RI stage.
C6_Witness ==
    /\ pc = "done"
    /\ \E i \in DOMAIN summary :
          /\ summary[i].clean_rows < summary[i].original_rows
          /\ summary[i].clean_rows > 0
    /\ \E i \in DOMAIN summary :
          /\ summary[i].has_after_RI
          /\ summary[i].clean_rows_after_RI < summary[i].clean_rows
          /\ summary[i].clean_rows_after_RI > 0

\* C7: the output of every cleaning function has no two rows with the same
\* primary-key value, the key compared as the integer it was normalized to.
C7_PrimaryKeyUnique ==
    pure.stage = "cleaned"
    =>
    \A i, j \in DOMAIN pure.out1 :
       (i # j /\ KeyOf(pure.out1[i][PrimaryKey(pure.table)]) # NULL)
       => KeyOf(pure.out1[i][PrimaryKey(pure.table)])
            # KeyOf(pure.out1[j][PrimaryKey(pure.table)])

\* C8: cleaning the written output of a cleaning function again returns
\* normally and gives the same rows with the same values.
C8_CleaningIdempotent ==
    /\ pure.stage # "raised_again"
    /\ pure.stage = "recleaned" => pure.out2 = pure.out1

\* The orders of this run's cleaned orders file that the orders -> users check
\* removed (order ids are distinct in the runs' inputs).
RemovedOrders ==
    {i \in DOMAIN cleaned["orders"] :
       \A j \in DOMAIN procData["orders"] :
          KeyOf(procData["orders"][j].order_id) # KeyOf(cleaned["orders"][i].order_id)}

\* The records of the orphan-orders output that carry order i's order_id and
\* user_id.
OrphanRecords(i) ==
    {k \in DOMAIN violData["orphan_orders"] :
       /\ KeyOf(violData["orphan_orders"][k].order_id)
            = KeyOf(cleaned["orders"][i].order_id)
       /\ KeyOf(violData["orphan_orders"][k].user_id)
            = KeyOf(cleaned["orders"][i].user_id)}

\* C9: in a run with users and orders present, an order is removed by the
\* orders -> users check exactly when its user_id references no cleaned user,
\* and the orphan-orders output holds one record (order_id, user_id) for each
\* removed order and none for a retained one.
C9_OrphanOrdersRemovedAndRecorded ==
    (AfterOrdersCheck /\ {"users", "orders"} \subseteq rawPresent)
    =>
    /\ \A i \in DOMAIN cleaned["orders"] :
          /\ i \in RemovedOrders
             <=> ~References(cleaned["orders"][i].user_id,
                             KeysOf(cleaned["users"], "id"))
          /\ Cardinality(OrphanRecords(i)) = IF i \in RemovedOrders THEN 1 ELSE 0
    /\ Len(violData["orphan_orders"]) = Cardinality(RemovedOrders)

\* The events of this run's cleaned events file that the events -> users check
\* kept, and the orphan-events records of an event.
EventKept(i) ==
    \E j \in DOMAIN procData["events"] :
       KeyOf(procData["events"][j].id) = KeyOf(cleaned["events"][i].id)

EventRecords(i) ==
    {k \in DOMAIN violData["orphan_events"] :
       KeyOf(violData["orphan_events"][k].id) = KeyOf(cleaned["events"][i].id)}

\* C10: when the events -> users check has run, an event without user_id is
\* kept and has no violation record, and an event whose user_id is the id of
\* no users row is removed and recorded with its id, user_id and created_at.
C10_EventsCheck ==
    (pc \in {"report", "done"} /\ "events_users" \in ran)
    =>
    \A i \in DOMAIN cleaned["events"] :
       /\ KeyOf(cleaned["events"][i].user_id) = NULL
          => EventKept(i) /\ EventRecords(i) = {}
       /\ (/\ KeyOf(cleaned["events"][i].user_id) # NULL
           /\ KeyOf(cleaned["events"][i].user_id) \notin UserKeys)
          => /\ ~EventKept(i)
             /\ Cardinality(EventRecords(i)) = 1
             /\ \A k \in EventRecords(i) :
                   /\ KeyOf(violData["orphan_events"][k].user_id)
                        = KeyOf(cleaned["events"][i].user_id)
                   /\ violData["orphan_events"][k].created_at
                        = cleaned["events"][i].created_at

\* A finished run whose events check kept an event without user_id and removed
\* and recorded an orphan event.
C10_Witness ==
    /\ pc = "done"
    /\ "events_users" \in ran
    /\ \E i \in DOMAIN cleaned["events"] :
          KeyOf(cleaned["events"][i].user_id) = NULL /\ EventKept(i)
    /\ \E i \in DOMAIN cleaned["events"] :
          /\ KeyOf(cleaned["events"][i].user_id) # NULL
          /\ ~EventKept(i)
          /\ Cardinality(EventRecords(i)) = 1

\* The order items of this run's cleaned order_items file that the order_items
\* checks kept, and the records an order item has in a violation output (order
\* item ids are distinct in the runs' inputs).
ItemKept(i) ==
    \E j \in DOMAIN procData["order_items"] :
       KeyOf(procData["order_items"][j].id) = KeyOf(cleaned["order_items"][i].id)

ItemRecords(v, i) ==
    {k \in DOMAIN violData[v] :
       /\ KeyOf(violData[v][k].id) = KeyOf(cleaned["order_items"][i].id)
       /\ KeyOf(violData[v][k].order_id) = KeyOf(cleaned["order_items"][i].order_id)
       /\ KeyOf(violData[v][k].product_id)
            = KeyOf(cleaned["order_items"][i].product_id)}

ItemOrderOk(i) == References(cleaned["order_items"][i].order_id, OrderKeys)
ItemProductOk(i) == References(cleaned["order_items"][i].product_id, ProductKeys)

\* C11: when the order_items checks have run, an order item is retained iff its
\* order_id is in orders and its product_id is in products, an item whose order
\* is missing has one record in the missing-orders output, and an item whose
\* product is missing has one record in the missing-products output, also when
\* it fails both.
C11_ItemsKeptIffBothChecksPass ==
    (pc \in {"ri_events", "report", "done"} /\ "order_items_orders" \in ran)
    =>
    \A i \in DOMAIN cleaned["order_items"] :
       /\ ItemKept(i) <=> (ItemOrderOk(i) /\ ItemProductOk(i))
       /\ Cardinality(ItemRecords("oi_missing_orders", i))
            = IF ItemOrderOk(i) THEN 0 ELSE 1
       /\ Cardinality(ItemRecords("oi_missing_products", i))
            = IF ItemProductOk(i) THEN 0 ELSE 1

\* A finished run that kept an order item and removed another one that failed
\* both checks and is recorded in both violation outputs.
C11_Witness ==
    /\ pc = "done"
    /\ "order_items_orders" \in ran
    /\ \E i \in DOMAIN cleaned["order_items"] : ItemKept(i)
    /\ \E i \in DOMAIN cleaned["order_items"] :
          /\ ~ItemOrderOk(i)
          /\ ~ItemProductOk(i)
          /\ ~ItemKept(i)
          /\ Cardinality(ItemRecords("oi_missing_orders", i)) = 1
          /\ Cardinality(ItemRecords("oi_missing_products", i)) = 1

\* C12: a failure while cleaning one table does not stop the run: the loop
\* goes on to the next table, and the RI stage and the summary are produced.
C12_CleaningFailureDoesNotStopRun ==
    ~(pc = "crashed" /\ idx <= Len(Tables))


\* C13: the load run exits 0 exactly when no table load failed and no
\* integrity check found orphans, and a run that ends with integrity warnings
\* has another exit status than a run that found no database connection.
C13_ExitStatusTellsOutcome ==
    load.pc = "exited" =>
        /\ load.exit = 0 <=> (load.connected /\ load.failed = {} /\ load.all_passed)
        /\ (load.connected /\ load.orphans) => load.exit # ExitNoConnection

\* The columns one validate() call checks, and the error types it recorded for
\* the cell of data row i (file line i + 1) of a column.
ValidatedColumns ==
    {validator.numeric_columns[k] : k \in DOMAIN validator.numeric_columns} \cap ValidatorColumns

CellViolations(i, col) ==
    {k \in DOMAIN validator.violations :
        validator.violations[k].row = i + 1 /\ validator.violations[k].column = col}

CellErrors(i, col) ==
    {validator.violations[k].error_type : k \in CellViolations(i, col)}

\* C14: a cell equal to 9223372036854775807 or to -9223372036854775808 gets no
\* violation, a cell of 9223372036854775808 or more is an OVERFLOW and a cell
\* below -9223372036854775808 an UNDERFLOW, whatever else the column holds.
C14_RangeEndsClassified ==
    validator.calls = 1 =>
        \A i \in DOMAIN validator.file : \A col \in ValidatedColumns :
            LET token == validator.file[i][col] IN
            /\ token \in {"9223372036854775807", "-9223372036854775808"}
                   => CellErrors(i, col) = {}
            /\ (IsIntegerToken(token) /\ Less(BIGINT_MAX, ParseNumber(token)))
                   => CellErrors(i, col) = {"OVERFLOW"}
            /\ (IsIntegerToken(token) /\ Less(ParseNumber(token), BIGINT_MIN))
                   => CellErrors(i, col) = {"UNDERFLOW"}

\* A cell that breaks the bigint rule: a text that is no number, a number
\* below the minimum or above the maximum, or a number with a fraction.
Offending(token) ==
    /\ token \notin DefaultNaTokens
    /\ \/ token \notin BigTokens
       \/ ParseNumber(token).frac
       \/ Less(ParseNumber(token), BIGINT_MIN)
       \/ Less(BIGINT_MAX, ParseNumber(token))

\* C15: one validate() call on a fresh validator records exactly one violation
\* for each offending cell of a validated column, with row = data-row index
\* + 2, and none for any other cell.
C15_OneViolationPerOffendingCell ==
    validator.calls = 1 =>
        /\ \A i \in DOMAIN validator.file : \A col \in ValidatedColumns :
              Cardinality(CellViolations(i, col))
                  = IF Offending(validator.file[i][col]) THEN 1 ELSE 0
        /\ \A k \in DOMAIN validator.violations :
              \E i \in DOMAIN validator.file : \E col \in ValidatedColumns :
                  k \in CellViolations(i, col)

\* C20: a second validate() on the same instance over the same file returns
\* what the first returned: the same is_valid and the same violations, none
\* twice, and the list the first call returned is as it was.
C20_SecondCallReturnsTheSame ==
    validator.calls = 2 =>
        /\ validator.is_valid = validator.first_valid
        /\ validator.violations = validator.first


\* C16: clean_events returns normally for every raw events file, and every id,
\* user_id and sequence_number it writes is empty or an integer.
C16_EventsKeysAlwaysCleaned ==
    (pure.table = "events" /\ pure.stage # "raw") =>
        /\ pure.stage # "raised"
        /\ \A i \in DOMAIN pure.out1 : \A c \in {"id", "user_id", "sequence_number"} :
              pure.out1[i][c] = "" \/ pure.out1[i][c] \in {IntForm(n) : n \in Numbers}


\* A raw timestamp cell as a time: NULL when it is missing or cannot be parsed.
TimeOf(cell) == IF cell \in RawNaTokens THEN NULL ELSE ToDatetime(cell)

\* a and b are both present and a is earlier than b.
Earlier(a, b) == a # NULL /\ b # NULL /\ TimeOrd(a) < TimeOrd(b)

CsvTime(cell) == IF TimeOf(cell) = NULL THEN "" ELSE TimeOf(cell)

CsvKey(cell) == IF cell \in RawNaTokens \/ ~IsNumTok(cell) THEN "" ELSE NumVal(cell)

\* The cleaned orders file holds raw order i: a row with its order_id, status
\* and timestamps.
OrderWritten(i) ==
    \E k \in DOMAIN pure.out1 :
        /\ pure.out1[k].order_id = CsvKey(pure.raw[i].order_id)
        /\ pure.out1[k].status = pure.raw[i].status
        /\ pure.out1[k].created_at = CsvTime(pure.raw[i].created_at)
        /\ pure.out1[k].shipped_at = CsvTime(pure.raw[i].shipped_at)
        /\ pure.out1[k].delivered_at = CsvTime(pure.raw[i].delivered_at)

\* Raw row i is the first row of its order (rows of one order_id are one order).
FirstOfOrder(i) ==
    \A j \in 1 .. (i - 1) :
        ReadCsv(pure.raw, {"order_id"}, RawNaTokens).rows[j].order_id
            # ReadCsv(pure.raw, {"order_id"}, RawNaTokens).rows[i].order_id

ShippedBeforeCreated(i) ==
    Earlier(TimeOf(pure.raw[i].shipped_at), TimeOf(pure.raw[i].created_at))

DeliveredBeforeShipped(i) ==
    Earlier(TimeOf(pure.raw[i].delivered_at), TimeOf(pure.raw[i].shipped_at))

C18_WrittenOrdersKeepTheRules ==
    (pure.table = "orders" /\ pure.stage = "cleaned") =>
        \A k \in DOMAIN pure.out1 :
            /\ ~Earlier(TimeOf(pure.out1[k].shipped_at), TimeOf(pure.out1[k].created_at))
            /\ ~Earlier(TimeOf(pure.out1[k].delivered_at), TimeOf(pure.out1[k].shipped_at))
            /\ ~Earlier(TimeOf(pure.out1[k].delivered_at), TimeOf(pure.out1[k].created_at))
            /\ pure.out1[k].status = "Returned" => pure.out1[k].returned_at # ""

\* The text with every run of two or more spaces made one space.
CollapseSpaces(s) ==
    CASE s = "  " -> " "
      [] s = "New  York" -> "New York"
      [] OTHER -> s

\* C19: clean_events collapses each run of repeated spaces inside a text: the
\* words on either side stay apart and no other character is removed.
C19_SpacesCollapsed ==
    (pure.table = "events" /\ pure.stage = "cleaned") =>
        \A k \in DOMAIN pure.out1 :
            \E i \in DOMAIN pure.raw :
                pure.out1[k].city \in
                    {CollapseSpaces(pure.raw[i].city), "", "Unknown"}


\* C21: after a completed run with every raw source present, no row of the
\* final tables is an orphan of one of the five relationships the load step
\* checks: orders.user_id -> users, order_items.order_id -> orders,
\* order_items.product_id -> products, order_items.user_id -> users and
\* inventory_items.product_id -> products.
C21_LoadChecksEnforcedByCleaning ==
    (pc = "done" /\ rawPresent = TableSet)
    =>
    /\ \A i \in DOMAIN procData["orders"] :
          References(procData["orders"][i].user_id, UserKeys)
    /\ \A i \in DOMAIN procData["order_items"] :
          /\ References(procData["order_items"][i].order_id, OrderKeys)
          /\ References(procData["order_items"][i].product_id, ProductKeys)
          /\ References(procData["order_items"][i].user_id, UserKeys)
    /\ \A i \in DOMAIN procData["inventory_items"] :
          References(procData["inventory_items"][i].product_id, ProductKeys)


\* The rows of table t that the RI stage of this run removed, and the records
\* the violation output v holds.
RemovedByRI(t) == Len(cleaned[t]) - Len(procData[t])

RecordsIn(v) == IF v \in violFiles THEN Len(violData[v]) ELSE 0

\* C22: over any sequence of runs, after a run that cleaned a child table the
\* violation output of its relationship holds as many records as this run
\* removed rows for it; when the run removed none there are no violation
\* records and the RI summary does not list the relationship.
C22_ViolationsAreThisRunsRemovals ==
    pc = "done" =>
        /\ "orders" \in rawPresent =>
              /\ RecordsIn("orphan_orders") = RemovedByRI("orders")
              /\ "orphan_orders" \in reported => RemovedByRI("orders") > 0
        /\ "events" \in rawPresent =>
              /\ RecordsIn("orphan_events") = RemovedByRI("events")
              /\ "orphan_events" \in reported => RemovedByRI("events") > 0
        /\ ("order_items" \in rawPresent /\ RemovedByRI("order_items") = 0) =>
              /\ RecordsIn("oi_missing_orders") = 0
              /\ RecordsIn("oi_missing_products") = 0
              /\ reported \cap {"oi_missing_orders", "oi_missing_products"} = {}


\* Raw users row i is the first raw row carrying its email, and the cleaned
\* users file holds raw row i: a row with its email and its id.
FirstOfEmail(i) ==
    \A j \in 1 .. (i - 1) : pure.raw[j].email # pure.raw[i].email

UserWritten(i) ==
    \E k \in DOMAIN pure.out1 :
        /\ pure.out1[k].email = pure.raw[i].email
        /\ pure.out1[k].id = CsvKey(pure.raw[i].id)

C24_NoOrderWithoutUser ==
    (AfterOrdersCheck /\ "orders_users" \in ran)
    =>
    \A i \in DOMAIN procData["orders"] :
       KeyOf(procData["orders"][i].user_id) # NULL

\* The tables the RI stage reads as parents only, and those it rewrites.
ParentTables == {"users", "products", "inventory_items", "distribution_centers"}
ChildTables == {"orders", "order_items", "events"}

\* The written rows of a are rows of b, cell for cell, in b's order.
RowsKeptFrom(a, b) == \E keep \in SUBSET DOMAIN b : a = Loc(b, keep)

\* C25: the RI stage only removes rows of orders, order_items and events.
\* When a run is over, the processed file of users, products, inventory_items
\* and distribution_centers is the file the cleaning step wrote, and the
\* processed file of each child table holds rows of the file the cleaning step
\* wrote, with the same cells, in the same relative order.
C25_RIOnlyRemovesChildRows ==
    pc = "done"
    =>
    /\ \A t \in ParentTables \cap rawPresent : procData[t] = cleaned[t]
    /\ \A t \in ChildTables \cap rawPresent : RowsKeptFrom(procData[t], cleaned[t])

====
